---- MODULE Spec2Model ----
(***************************************************************************)
(* A model of windows_color_picker.c: a circular magnifier that follows    *)
(* the cursor, copies the pixel under the cursor as #RRGGBB on left click  *)
(* and exits.                                                              *)
(*                                                                         *)
(* The program is one thread.  wWinMain creates the window, installs two   *)
(* low-level hooks and then sits in GetMessageW.  The hook procedures and  *)
(* the window procedure are called by the system only while that thread is *)
(* inside GetMessageW; PostQuitMessage only raises a flag that GetMessageW *)
(* turns into WM_QUIT when it next looks for a message, so further hook    *)
(* calls may be served between the PostQuitMessage and the end of the loop.*)
(***************************************************************************)
EXTENDS Integers, Sequences, FiniteSets, TLC

(***************************************************************************)
(* Program constants (windows_color_picker.c:13-19) and the values of the  *)
(* windows.h names the code compares against.                              *)
(***************************************************************************)
kRadius == 120
kDiameter == 240
kZoom == 8
kBorderWidth == 2
kOffsetX == 40
kOffsetY == 40

HC_ACTION == 0
WM_KEYDOWN == 256
WM_SYSKEYDOWN == 260
WM_LBUTTONDOWN == 513
VK_SHIFT == 16
VK_ESCAPE == 27
VK_LEFT == 37
VK_UP == 38
VK_RIGHT == 39
VK_DOWN == 40

(***************************************************************************)
(* Bounds of the model.                                                    *)
(***************************************************************************)
MaxEvents == 3        \* commits, cursor nudges and frames served in one run

VARIABLES
    pc,             \* where wWinMain is: "start", "loop", "teardown", "done"
    exitCode,       \* wWinMain's return value, -1 while it runs
    hwndAlive,      \* the overlay window exists
    timerOn,        \* timer 1 of the window is set
    g_mouseHook,    \* g_mouseHook is not NULL
    g_keyboardHook, \* g_keyboardHook is not NULL
    hooked,         \* the hooks the system holds for this process: [mouse, kbd]
    quitPosted,     \* PostQuitMessage has been called
    cursor,         \* the system cursor position <<x, y>>
    screen,         \* what the screen shows (a picture name)
    clipboard,      \* the system clipboard's text, a sequence of characters
    clipResult,     \* how the last clipboard_set_text_utf16 call ended
    stdout,         \* lines written to the parent console
    g_memDC,        \* g_memDC / g_dib / g_capDC exist
    g_capBmp,       \* g_capBmp exists
    g_capSize,      \* side of the capture bitmap
    capCenter,      \* screen point the capture bitmap was taken around
    wndPos,         \* where UpdateLayeredWindow last put the window
    hookRet,        \* what the last hook procedure call returned
    cancelled,      \* Escape was served before any left-button-down
    api,            \* number of calls made to each system function
    fmt,            \* formatting study: [rgb, buf]
    clamp,          \* placement study: [cur, work, out]
    probe,          \* frame study: one pixel of the composited frame
    served          \* keyboard study: the last call of the keyboard hook

vars == <<pc, exitCode, hwndAlive, timerOn, g_mouseHook, g_keyboardHook, hooked,
          quitPosted, cursor, screen, clipboard, clipResult, stdout, g_memDC,
          g_capBmp, g_capSize, capCenter, wndPos, hookRet, cancelled, api,
          fmt, clamp, probe, served>>

progVars == <<pc, exitCode, hwndAlive, timerOn, g_mouseHook, g_keyboardHook, hooked,
              quitPosted, cursor, screen, clipboard, clipResult, stdout, g_memDC,
              g_capBmp, g_capSize, capCenter, wndPos, hookRet, cancelled, api>>

(***************************************************************************)
(* Colours.  A COLORREF is 0x00bbggrr.                                     *)
(***************************************************************************)
RGB(r, g, b) == r + 256 * g + 65536 * b

GetRValue(c) == c % 256

GetGValue(c) == (c \div 256) % 256

GetBValue(c) == (c \div 65536) % 256

\* The screen contents the model offers: a uniformly red screen, and one
\* whose colour differs from pixel to pixel.
Pictures == {"red", "grad"}

\* GetPixel(screen, x, y) for a point on the screen.
GetPixel(pic, x, y) ==
    IF pic = "red" THEN RGB(255, 0, 0)
    ELSE RGB(x % 256, y % 256, (x + y) % 256)

(***************************************************************************)
(* swprintf(buf, 16, L"#%02X%02X%02X", r, g, b).  Text is a sequence of    *)
(* one-character strings.                                                  *)
(***************************************************************************)
UpperHexChars == <<"0", "1", "2", "3", "4", "5", "6", "7",
                   "8", "9", "A", "B", "C", "D", "E", "F">>

RECURSIVE HexDigitsOf(_)
\* %X: the hexadecimal digits of v, most significant first, no padding.
HexDigitsOf(v) ==
    IF v < 16 THEN <<UpperHexChars[v + 1]>>
    ELSE HexDigitsOf(v \div 16) \o <<UpperHexChars[(v % 16) + 1]>>

RECURSIVE ZeroPad(_, _)
\* The 0 flag with a minimum width: zeros on the left up to the width.
ZeroPad(digits, width) ==
    IF Len(digits) >= width THEN digits ELSE ZeroPad(<<"0">> \o digits, width)

\* %X without the 0 flag and width.
Fmt02X_NoPadding(v) == HexDigitsOf(v)

Fmt02X(v) == ZeroPad(HexDigitsOf(v), 2)

\* swprintf writes at most count-1 characters and the terminator.
swprintf_color(count, r, g, b) ==
    LET full == <<"#">> \o Fmt02X(r) \o Fmt02X(g) \o Fmt02X(b)
    IN  IF Len(full) < count THEN full ELSE <<>>

(***************************************************************************)
(* clipboard_set_text_utf16: the outcome depends on whether OpenClipboard, *)
(* GlobalAlloc and GlobalLock succeed.                                     *)
(***************************************************************************)
ClipOutcome(openOk, allocOk, lockOk) ==
    IF ~openOk THEN "openFailed"
    ELSE IF ~allocOk \/ ~lockOk THEN "emptied"
    ELSE "set"

\* A version that does not return when OpenClipboard fails.
clipboard_set_text_utf16_IgnoresOpen(old, text, openOk, allocOk, lockOk) ==
    IF allocOk /\ lockOk THEN text ELSE <<>>

\* The clipboard's text after the call.
clipboard_set_text_utf16(old, text, openOk, allocOk, lockOk) ==
    IF ~openOk THEN old                        \* return before touching it
    ELSE IF allocOk /\ lockOk THEN text        \* EmptyClipboard, SetClipboardData
    ELSE <<>>                                  \* EmptyClipboard only

\* The call counts after the call.
clipboard_calls(a, openOk, allocOk, lockOk) ==
    [a EXCEPT !.OpenClipboard = @ + 1,
              !.EmptyClipboard = IF openOk THEN @ + 1 ELSE @,
              !.SetClipboardData = IF openOk /\ allocOk /\ lockOk THEN @ + 1 ELSE @]

(***************************************************************************)
(* clamp_to_monitor, with the work area of the monitor the system names.   *)
(* A rectangle is [left, top, right, bottom].                              *)
(***************************************************************************)
\* A version without the right and bottom tests.
clamp_to_monitor_LeftTopOnly(desired, width, height, work) ==
    LET x1 == IF desired[1] < work.left THEN work.left ELSE desired[1]
        y1 == IF desired[2] < work.top THEN work.top ELSE desired[2]
    IN  [left |-> x1, top |-> y1, right |-> x1 + width, bottom |-> y1 + height]

clamp_to_monitor(desired, width, height, work) ==
    LET x0 == desired[1]
        y0 == desired[2]
        x1 == IF x0 < work.left THEN work.left ELSE x0
        y1 == IF y0 < work.top THEN work.top ELSE y0
        x2 == IF x1 + width > work.right THEN work.right - width ELSE x1
        y2 == IF y1 + height > work.bottom THEN work.bottom - height ELSE y1
    IN  [left |-> x2, top |-> y2, right |-> x2 + width, bottom |-> y2 + height]

\* draw_overlay_frame: the window is wanted at the cursor plus the offset.
DesiredTopLeft(cur) == <<cur[1] + kOffsetX, cur[2] + kOffsetY>>

\* ensure_resources: the capture side, made odd.
DesiredCapSize ==
    LET d == kDiameter \div kZoom
    IN  IF d % 2 = 0 THEN d + 1 ELSE d

(***************************************************************************)
(* The inputs the system may hand to the program.                          *)
(***************************************************************************)
StartCursors == {<<100, 100>>}

OldClipboard == <<"o", "l", "d">>

NoCalls ==
    [SetWindowsHookExMouse |-> 0, SetWindowsHookExKbd |-> 0,
     UnhookMouse |-> 0, UnhookKbd |-> 0,
     GetPixel |-> 0, OpenClipboard |-> 0, EmptyClipboard |-> 0,
     SetClipboardData |-> 0, SetCursorPos |-> 0, UpdateLayeredWindow |-> 0]

\* The events the bound counts: calls of copy_color_and_quit, SetCursorPos calls
\* of the keyboard hook, frames presented.
EventsServed == api.GetPixel + api.SetCursorPos + api.UpdateLayeredWindow

\* Work areas GetMonitorInfo may report while the program runs: a full HD
\* monitor with a 40 pixel task bar, and a monitor left of it.
TickWorkAreas ==
    {[left |-> 0, top |-> 0, right |-> 1920, bottom |-> 1040],
     [left |-> -1280, top |-> 0, right |-> 0, bottom |-> 984]}

\* The program's variables while one of its functions is studied alone.
ProgramIdle ==
    /\ pc = "start"
    /\ exitCode = -1
    /\ hwndAlive = FALSE
    /\ timerOn = FALSE
    /\ g_mouseHook = FALSE
    /\ g_keyboardHook = FALSE
    /\ hooked = [mouse |-> FALSE, kbd |-> FALSE]
    /\ quitPosted = FALSE
    /\ cursor = <<100, 100>>
    /\ screen = "red"
    /\ clipboard = OldClipboard
    /\ clipResult = "none"
    /\ stdout = <<>>
    /\ g_memDC = FALSE
    /\ g_capBmp = FALSE
    /\ g_capSize = 0
    /\ capCenter = <<>>
    /\ wndPos = <<0, 0>>
    /\ hookRet = "none"
    /\ cancelled = FALSE
    /\ api = NoCalls

\* WM_MOUSEMOVE, WM_LBUTTONDOWN, WM_LBUTTONUP
MouseMessages == {512, WM_LBUTTONDOWN, 514}

\* WM_KEYDOWN, WM_KEYUP, WM_SYSKEYDOWN
KeyMessages == {WM_KEYDOWN, 257, WM_SYSKEYDOWN}

\* The keys the code names, the Shift key and the letter A.
KeyCodes == {VK_LEFT, VK_UP, VK_RIGHT, VK_DOWN, VK_ESCAPE, VK_SHIFT, 65}

HookCodes == {HC_ACTION, -1}

\* The values the study variables keep while the program itself is explored.
IdleFmt == [rgb |-> <<0, 0, 0>>, buf |-> <<>>]

IdleClamp == [cur |-> <<0, 0>>, work |-> [left |-> 0, top |-> 0, right |-> 0, bottom |-> 0],
              out |-> [left |-> 0, top |-> 0, right |-> 0, bottom |-> 0], done |-> FALSE]

ClearedPixel == [b |-> 0, g |-> 0, r |-> 0, a |-> 0]

IdleProbe == [pic |-> "red", cur |-> <<0, 0>>, at |-> <<0, 0>>, px |-> ClearedPixel,
              drawn |-> FALSE]

IdleServed == [nCode |-> -1, wParam |-> 0, vk |-> 0, shift |-> FALSE, from |-> <<0, 0>>,
               any |-> FALSE]

(***************************************************************************)
(* The state when wWinMain is entered: statics are zero.                   *)
(***************************************************************************)
Init ==
    /\ pc = "start"
    /\ exitCode = -1
    /\ hwndAlive = FALSE
    /\ timerOn = FALSE
    /\ g_mouseHook = FALSE
    /\ g_keyboardHook = FALSE
    /\ hooked = [mouse |-> FALSE, kbd |-> FALSE]
    /\ quitPosted = FALSE
    /\ cursor \in StartCursors
    /\ screen \in Pictures
    /\ clipboard = OldClipboard
    /\ clipResult = "none"
    /\ stdout = <<>>
    /\ g_memDC = FALSE
    /\ g_capBmp = FALSE
    /\ g_capSize = 0
    /\ capCenter = <<>>
    /\ wndPos = <<0, 0>>
    /\ hookRet = "none"
    /\ cancelled = FALSE
    /\ api = NoCalls
    /\ fmt = IdleFmt
    /\ clamp = IdleClamp
    /\ probe = IdleProbe
    /\ served = IdleServed

(***************************************************************************)
(* wWinMain up to the message loop (lines 340-374).  CreateWindowExW sends *)
(* WM_CREATE, where WndProc sets the timer.                                *)
(***************************************************************************)
WinMainStart(createOk, mouseOk, kbdOk) ==
    /\ pc = "start"
    /\ IF ~createOk
       THEN /\ pc' = "done"
            /\ exitCode' = 1
            /\ UNCHANGED <<hwndAlive, timerOn, g_mouseHook, g_keyboardHook, hooked, api>>
       ELSE /\ pc' = "loop"
            /\ exitCode' = exitCode
            /\ hwndAlive' = TRUE
            /\ timerOn' = TRUE
            /\ g_mouseHook' = mouseOk
            /\ g_keyboardHook' = kbdOk
            /\ hooked' = [mouse |-> mouseOk, kbd |-> kbdOk]
            /\ api' = [api EXCEPT !.SetWindowsHookExMouse = @ + 1,
                                  !.SetWindowsHookExKbd = @ + 1]
    /\ UNCHANGED <<quitPosted, cursor, screen, clipboard, clipResult, stdout, g_memDC,
                   g_capBmp, g_capSize, capCenter, wndPos, hookRet, cancelled,
                   fmt, clamp, probe, served>>

(***************************************************************************)
(* copy_color_and_quit (lines 130-152).                                    *)
(***************************************************************************)
\* Lines 138-143: the channels of the COLORREF, formatted into buf[16].
FormatColorRef(c) == swprintf_color(16, GetRValue(c), GetGValue(c), GetBValue(c))

\* Reading the centre of the last capture instead.
SamplePoint_FromCapture(cur, cap) == IF cap = <<>> THEN cur ELSE cap

\* The point whose pixel is read: the cursor position at the call.
SamplePoint(cur, cap) == cur

copy_color_and_quit(openOk, allocOk, lockOk, consoleOk) ==
    LET p == SamplePoint(cursor, capCenter)
        c == GetPixel(screen, p[1], p[2])
        buf == FormatColorRef(c)
    IN  /\ clipboard' = clipboard_set_text_utf16(clipboard, buf, openOk, allocOk, lockOk)
        /\ clipResult' = ClipOutcome(openOk, allocOk, lockOk)
        /\ api' = clipboard_calls([api EXCEPT !.GetPixel = @ + 1], openOk, allocOk, lockOk)
        /\ stdout' = IF consoleOk THEN Append(stdout, buf) ELSE stdout
        /\ quitPosted' = TRUE

(***************************************************************************)
(* LowLevelMouseProc (lines 154-164).  It has no memory of earlier calls.  *)
(***************************************************************************)
MouseCommits(nCode, wParam) == nCode = HC_ACTION /\ wParam = WM_LBUTTONDOWN

\* The system calls' outcomes matter only to a call that commits.
CallOutcomes(nCode, wParam) == IF MouseCommits(nCode, wParam) THEN BOOLEAN ELSE {TRUE}

LowLevelMouseProc(nCode, wParam, openOk, allocOk, lockOk, consoleOk) ==
    /\ pc = "loop"
    /\ hooked.mouse
    /\ IF MouseCommits(nCode, wParam)
       THEN /\ EventsServed < MaxEvents
            /\ copy_color_and_quit(openOk, allocOk, lockOk, consoleOk)
            /\ hookRet' = "swallowed"
       ELSE /\ hookRet' = "next"
            /\ UNCHANGED <<clipboard, clipResult, api, stdout, quitPosted>>
    /\ UNCHANGED <<pc, exitCode, hwndAlive, timerOn, g_mouseHook, g_keyboardHook, hooked,
                   cursor, screen, g_memDC, g_capBmp, g_capSize, capCenter, wndPos,
                   cancelled, fmt, clamp, probe, served>>

(***************************************************************************)
(* LowLevelKeyboardProc (lines 166-200): what one call does, given the     *)
(* cursor position GetCursorPos would report and the Shift state.          *)
(***************************************************************************)
\* A step that ignores Shift.
NudgeStep_IgnoresShift(shift) == 1

NudgeStep(shift) == IF shift THEN 5 ELSE 1

KeyboardResult(nCode, wParam, vk, shift, cur) ==
    LET step == NudgeStep(shift)
        pass == [cursor |-> cur, moved |-> FALSE, quit |-> FALSE, ret |-> "next"]
        move(x, y) == [cursor |-> <<x, y>>, moved |-> TRUE, quit |-> FALSE, ret |-> "swallowed"]
    IN  IF nCode = HC_ACTION /\ (wParam = WM_KEYDOWN \/ wParam = WM_SYSKEYDOWN)
        THEN CASE vk = VK_LEFT -> move(cur[1] - step, cur[2])
               [] vk = VK_RIGHT -> move(cur[1] + step, cur[2])
               [] vk = VK_UP -> move(cur[1], cur[2] - step)
               [] vk = VK_DOWN -> move(cur[1], cur[2] + step)
               [] vk = VK_ESCAPE -> [pass EXCEPT !.quit = TRUE, !.ret = "swallowed"]
               [] OTHER -> pass
        ELSE pass

LowLevelKeyboardProc(nCode, wParam, vk, shift) ==
    LET res == KeyboardResult(nCode, wParam, vk, shift, cursor)
    IN  /\ pc = "loop"
        /\ hooked.kbd
        /\ res.moved => EventsServed < MaxEvents
        /\ cursor' = res.cursor
        /\ api' = IF res.moved THEN [api EXCEPT !.SetCursorPos = @ + 1] ELSE api
        /\ quitPosted' = (quitPosted \/ res.quit)
        /\ cancelled' = (cancelled \/ (res.quit /\ api.GetPixel = 0))
        /\ hookRet' = res.ret
        /\ UNCHANGED <<pc, exitCode, hwndAlive, timerOn, g_mouseHook, g_keyboardHook,
                       hooked, screen, clipboard, clipResult, stdout, g_memDC, g_capBmp,
                       g_capSize, capCenter, wndPos, fmt, clamp, probe>>

(***************************************************************************)
(* WndProc, WM_TIMER: draw_overlay_frame (lines 262-321).  GetMessageW     *)
(* hands out WM_TIMER only when nothing else is pending, the quit flag     *)
(* included.  The frame's pixels are studied separately (DrawProbe).       *)
(***************************************************************************)
WndProcTimer(work) ==
    /\ pc = "loop"
    /\ timerOn
    /\ ~quitPosted
    /\ EventsServed < MaxEvents
    /\ g_memDC' = TRUE
    /\ g_capBmp' = TRUE
    /\ g_capSize' = DesiredCapSize
    /\ capCenter' = cursor
    /\ LET wr == clamp_to_monitor(DesiredTopLeft(cursor), kDiameter, kDiameter, work)
       IN  wndPos' = <<wr.left, wr.top>>
    /\ api' = [api EXCEPT !.UpdateLayeredWindow = @ + 1]
    /\ UNCHANGED <<pc, exitCode, hwndAlive, timerOn, g_mouseHook, g_keyboardHook, hooked,
                   quitPosted, cursor, screen, clipboard, clipResult, stdout, hookRet,
                   cancelled, fmt, clamp, probe, served>>

(***************************************************************************)
(* WndProc, WM_DESTROY (lines 331-334): the window is being destroyed.     *)
(***************************************************************************)
WndProcDestroy ==
    /\ pc = "loop"
    /\ hwndAlive
    /\ hwndAlive' = FALSE
    /\ timerOn' = FALSE
    /\ quitPosted' = TRUE
    /\ UNCHANGED <<pc, exitCode, g_mouseHook, g_keyboardHook, hooked, cursor, screen,
                   clipboard, clipResult, stdout, g_memDC, g_capBmp, g_capSize,
                   capCenter, wndPos, hookRet, cancelled, api, fmt, clamp, probe, served>>

(***************************************************************************)
(* wWinMain, the loop's end (line 377): GetMessageW retrieves WM_QUIT.     *)
(***************************************************************************)
WinMainLoopExit ==
    /\ pc = "loop"
    /\ quitPosted
    /\ pc' = "teardown"
    /\ UNCHANGED <<exitCode, hwndAlive, timerOn, g_mouseHook, g_keyboardHook, hooked,
                   quitPosted, cursor, screen, clipboard, clipResult, stdout, g_memDC,
                   g_capBmp, g_capSize, capCenter, wndPos, hookRet, cancelled, api,
                   fmt, clamp, probe, served>>

(***************************************************************************)
(* wWinMain after the loop (lines 382-391).                                *)
(***************************************************************************)
\* A teardown that forgets the mouse hook.
WinMainTeardown_LeavesMouseHook ==
    /\ pc = "teardown"
    /\ api' = [api EXCEPT !.UnhookKbd = IF g_keyboardHook THEN @ + 1 ELSE @]
    /\ hooked' = [hooked EXCEPT !.kbd = hooked.kbd /\ ~g_keyboardHook]
    /\ g_capBmp' = FALSE
    /\ g_memDC' = FALSE
    /\ exitCode' = 0
    /\ pc' = "done"
    /\ UNCHANGED <<hwndAlive, timerOn, g_mouseHook, g_keyboardHook, quitPosted, cursor,
                   screen, clipboard, clipResult, stdout, g_capSize, capCenter, wndPos,
                   hookRet, cancelled, fmt, clamp, probe, served>>

WinMainTeardown ==
    /\ pc = "teardown"
    /\ api' = [api EXCEPT !.UnhookKbd = IF g_keyboardHook THEN @ + 1 ELSE @,
                          !.UnhookMouse = IF g_mouseHook THEN @ + 1 ELSE @]
    /\ hooked' = [mouse |-> hooked.mouse /\ ~g_mouseHook,
                  kbd |-> hooked.kbd /\ ~g_keyboardHook]
    /\ g_capBmp' = FALSE
    /\ g_memDC' = FALSE
    /\ exitCode' = 0
    /\ pc' = "done"
    /\ UNCHANGED <<hwndAlive, timerOn, g_mouseHook, g_keyboardHook, quitPosted, cursor,
                   screen, clipboard, clipResult, stdout, g_capSize, capCenter, wndPos,
                   hookRet, cancelled, fmt, clamp, probe, served>>

Next ==
    \/ \E createOk, mouseOk, kbdOk \in BOOLEAN : WinMainStart(createOk, mouseOk, kbdOk)
    \/ \E nCode \in HookCodes, wParam \in MouseMessages :
          \E openOk, allocOk, lockOk, consoleOk \in CallOutcomes(nCode, wParam) :
            LowLevelMouseProc(nCode, wParam, openOk, allocOk, lockOk, consoleOk)
    \/ \E nCode \in HookCodes, wParam \in KeyMessages, vk \in KeyCodes, shift \in BOOLEAN :
            LowLevelKeyboardProc(nCode, wParam, vk, shift) /\ UNCHANGED served
    \/ \E work \in TickWorkAreas : WndProcTimer(work)
    \/ WndProcDestroy
    \/ WinMainLoopExit
    \/ WinMainTeardown

Spec == Init /\ [][Next]_vars

(***************************************************************************)
(* The keyboard hook alone: the program is in its message loop with both   *)
(* hooks installed, and only LowLevelKeyboardProc is called; each call's   *)
(* arguments and the cursor position it found are kept in served.          *)
(***************************************************************************)
InitKeys ==
    /\ pc = "loop"
    /\ exitCode = -1
    /\ hwndAlive = TRUE
    /\ timerOn = TRUE
    /\ g_mouseHook = TRUE
    /\ g_keyboardHook = TRUE
    /\ hooked = [mouse |-> TRUE, kbd |-> TRUE]
    /\ quitPosted = FALSE
    /\ cursor \in StartCursors
    /\ screen = "red"
    /\ clipboard = OldClipboard
    /\ clipResult = "none"
    /\ stdout = <<>>
    /\ g_memDC = FALSE
    /\ g_capBmp = FALSE
    /\ g_capSize = 0
    /\ capCenter = <<>>
    /\ wndPos = <<0, 0>>
    /\ hookRet = "none"
    /\ cancelled = FALSE
    /\ api = [NoCalls EXCEPT !.SetWindowsHookExMouse = 1, !.SetWindowsHookExKbd = 1]
    /\ fmt = IdleFmt
    /\ clamp = IdleClamp
    /\ probe = IdleProbe
    /\ served = IdleServed

KeyServe(nCode, wParam, vk, shift) ==
    /\ LowLevelKeyboardProc(nCode, wParam, vk, shift)
    /\ served' = [nCode |-> nCode, wParam |-> wParam, vk |-> vk, shift |-> shift,
                  from |-> cursor, any |-> TRUE]

NextKeys ==
    \E nCode \in HookCodes, wParam \in KeyMessages, vk \in KeyCodes, shift \in BOOLEAN :
        KeyServe(nCode, wParam, vk, shift)

SpecKeys == InitKeys /\ [][NextKeys]_vars

(***************************************************************************)
(* The colour formatting alone: a colour is drawn, copy_color_and_quit's   *)
(* formatting is applied to its COLORREF.                                  *)
(***************************************************************************)
ChannelSamples == {0, 10, 165, 255}

InitFmt ==
    /\ ProgramIdle
    /\ fmt \in {[rgb |-> <<r, g, b>>, buf |-> <<>>] :
                  r \in 0..255, g \in ChannelSamples, b \in ChannelSamples}
    /\ clamp = IdleClamp
    /\ probe = IdleProbe
    /\ served = IdleServed

FmtFormat ==
    /\ fmt.buf = <<>>
    /\ fmt' = [fmt EXCEPT !.buf = FormatColorRef(RGB(fmt.rgb[1], fmt.rgb[2], fmt.rgb[3]))]
    /\ UNCHANGED <<progVars, clamp, probe, served>>

\* Another colour: the channels change places, so that each channel takes
\* every value.
FmtRotate ==
    /\ fmt' = [rgb |-> <<fmt.rgb[2], fmt.rgb[3], fmt.rgb[1]>>, buf |-> <<>>]
    /\ UNCHANGED <<progVars, clamp, probe, served>>

NextFmt == FmtFormat \/ FmtRotate

SpecFmt == InitFmt /\ [][NextFmt]_vars

(***************************************************************************)
(* The window placement alone: draw_overlay_frame's call of                *)
(* clamp_to_monitor for a cursor position and a work area.                 *)
(***************************************************************************)
MaxDelta == 2         \* how far around each edge the cursor positions are taken

\* Work areas: a full HD monitor with a task bar, a monitor left of the
\* primary one, one exactly as large as the window, a 320x240 panel with a
\* 40 pixel task bar, and a narrow one.
ClampWorkAreas ==
    {[left |-> 0, top |-> 0, right |-> 1920, bottom |-> 1040],
     [left |-> -1280, top |-> 0, right |-> 0, bottom |-> 984],
     [left |-> 0, top |-> 0, right |-> 240, bottom |-> 240],
     [left |-> 0, top |-> 0, right |-> 320, bottom |-> 200],
     [left |-> 0, top |-> 40, right |-> 200, bottom |-> 600]}

\* Cursor coordinates that put the wanted window edge around a <= e <= b.
AroundEdges(a, b, offset, size) ==
    {e - offset + d : e \in {a - size, a, b - size, b}, d \in (-MaxDelta)..MaxDelta}

ClampCursors(work) ==
    AroundEdges(work.left, work.right, kOffsetX, kDiameter)
        \X AroundEdges(work.top, work.bottom, kOffsetY, kDiameter)

InitClamp ==
    /\ ProgramIdle
    /\ fmt = IdleFmt
    /\ \E work \in ClampWorkAreas : \E cur \in ClampCursors(work) :
          clamp = [cur |-> cur, work |-> work, out |-> IdleClamp.out, done |-> FALSE]
    /\ probe = IdleProbe
    /\ served = IdleServed

ClampPlace ==
    /\ ~clamp.done
    /\ clamp' = [clamp EXCEPT
                   !.out = clamp_to_monitor(DesiredTopLeft(clamp.cur), kDiameter,
                                            kDiameter, clamp.work),
                   !.done = TRUE]
    /\ UNCHANGED <<progVars, fmt, probe, served>>

NextClamp == ClampPlace

SpecClamp == InitClamp /\ [][NextClamp]_vars

(***************************************************************************)
(* The composited frame, one pixel at a time (draw_overlay_frame, lines    *)
(* 276-302).  A pixel is [b, g, r, a] as in the DIB.                       *)
(***************************************************************************)
\* StretchBlt, COLORONCOLOR: the frame pixel takes the capture pixel it falls
\* on; the capture holds the screen around the cursor.  The fourth byte is
\* whatever the capture bitmap holds there.
StretchedPixel(pic, cur, x, y, srcAlpha) ==
    LET capSize == DesiredCapSize
        half == capSize \div 2
        sx == (x * capSize) \div kDiameter
        sy == (y * capSize) \div kDiameter
        c == GetPixel(pic, cur[1] - half + sx, cur[2] - half + sy)
    IN  [b |-> GetBValue(c), g |-> GetGValue(c), r |-> GetRValue(c), a |-> srcAlpha]

\* apply_circle_alpha_mask, for the pixel at (x, y).
apply_circle_alpha_mask(px, x, y) ==
    LET r2 == kRadius * kRadius
        dx == x - kRadius
        dy == y - kRadius
        d2 == dx * dx + dy * dy
    IN  IF d2 <= r2 THEN [px EXCEPT !.a = 255] ELSE ClearedPixel

\* Ellipse(g_memDC, inset, inset, kDiameter - inset, kDiameter - inset) with
\* the white pen kBorderWidth wide and a hollow brush: the pixels within half
\* the pen width of the circle inscribed in the box's pixels, left..right-1.
\* Lengths are doubled to stay in integers.
OnRing(x, y) ==
    LET inset == kBorderWidth \div 2
        left == inset
        right == kDiameter - inset
        centre2 == left + (right - 1)
        radius2 == (right - 1) - left
        d == (2 * x - centre2) * (2 * x - centre2) + (2 * y - centre2) * (2 * y - centre2)
    IN  /\ (radius2 - kBorderWidth) * (radius2 - kBorderWidth) <= d
        /\ d <= (radius2 + kBorderWidth) * (radius2 + kBorderWidth)

\* Rectangle(g_memDC, cx - m/2, cy - m/2, cx + m/2, cy + m/2), m = 6, with the
\* same pen and brush: the outline of the box's pixels, half the pen width to
\* each side.
OnMarker(x, y) ==
    LET m == 6
        half == kBorderWidth \div 2
        lo == kRadius - m \div 2
        hi == kRadius + m \div 2 - 1
        within(a, b) == a <= x /\ x <= b /\ a <= y /\ y <= b
    IN  within(lo - half, hi + half) /\ ~within(lo + half, hi - half)

\* A GDI pen in RGB(255, 255, 255) on a 32-bit DIB: the colour bytes are
\* written; GDI either leaves the fourth byte or writes the COLORREF's zero.
PenStroke(px, keepsAlpha) ==
    [b |-> 255, g |-> 255, r |-> 255, a |-> IF keepsAlpha THEN px.a ELSE 0]

\* The frame pixel at (x, y) after memset, StretchBlt, the mask and the two
\* outlines.
FramePixel(pic, cur, x, y, srcAlpha, keepsAlpha) ==
    LET stretched == StretchedPixel(pic, cur, x, y, srcAlpha)
        masked == apply_circle_alpha_mask(stretched, x, y)
        ringed == IF OnRing(x, y) THEN PenStroke(masked, keepsAlpha) ELSE masked
    IN  IF OnMarker(x, y) THEN PenStroke(ringed, keepsAlpha) ELSE ringed

FramePoints == (0..(kDiameter - 1)) \X (0..(kDiameter - 1))

InitFrame ==
    /\ ProgramIdle
    /\ fmt = IdleFmt
    /\ clamp = IdleClamp
    /\ probe \in {[pic |-> pic, cur |-> <<100, 100>>, at |-> at, px |-> ClearedPixel,
                   drawn |-> FALSE] : pic \in Pictures, at \in FramePoints}
    /\ served = IdleServed

DrawProbe(srcAlpha, keepsAlpha) ==
    /\ ~probe.drawn
    /\ probe' = [probe EXCEPT
                   !.px = FramePixel(probe.pic, probe.cur, probe.at[1], probe.at[2],
                                     srcAlpha, keepsAlpha),
                   !.drawn = TRUE]
    /\ UNCHANGED <<progVars, fmt, clamp, served>>

NextFrame == \E srcAlpha \in {0, 255}, keepsAlpha \in BOOLEAN : DrawProbe(srcAlpha, keepsAlpha)

SpecFrame == InitFrame /\ [][NextFrame]_vars

(***************************************************************************)
(* Properties.                                                             *)
(***************************************************************************)
\* A step in which copy_color_and_quit ran.
CommitStep == api'.GetPixel # api.GetPixel

\* #RRGGBB written out digit by digit.
HexPair(v) == <<UpperHexChars[(v \div 16) + 1], UpperHexChars[(v % 16) + 1]>>

HexText(r, g, b) == <<"#">> \o HexPair(r) \o HexPair(g) \o HexPair(b)

\* The value of an uppercase hexadecimal digit, -1 for any other character.
HexValue(ch) ==
    IF \E i \in 1..16 : UpperHexChars[i] = ch
    THEN (CHOOSE i \in 1..16 : UpperHexChars[i] = ch) - 1
    ELSE -1

\* C1: in every run the clipboard is written at most once, also when several
\* left-button-down events reach LowLevelMouseProc before the loop ends.
ClipboardWrittenAtMostOnce == api.SetClipboardData <= 1

\* C2: if Escape is served before any left click, the process exits with
\* code 0 and the clipboard is what it was before the process started.
EscapeLeavesClipboard ==
    (cancelled /\ pc = "done") => (exitCode = 0 /\ clipboard = OldClipboard)

\* C3: SetWindowsHookExW is called once for the mouse and once for the
\* keyboard; no hook is uninstalled before the loop has ended; each hook is
\* uninstalled at most once; and when the process has exited every installed
\* hook has been uninstalled exactly once and none is left installed.
HooksUninstalledOnce ==
    /\ pc = "start" => api.SetWindowsHookExMouse = 0 /\ api.SetWindowsHookExKbd = 0
    /\ (pc \in {"loop", "teardown"} \/ (pc = "done" /\ exitCode = 0))
          => api.SetWindowsHookExMouse = 1 /\ api.SetWindowsHookExKbd = 1
    /\ pc = "loop" => hooked = [mouse |-> g_mouseHook, kbd |-> g_keyboardHook]
    /\ pc # "done" => api.UnhookMouse = 0 /\ api.UnhookKbd = 0
    /\ pc = "done" =>
          /\ ~hooked.mouse /\ ~hooked.kbd
          /\ api.UnhookMouse = (IF g_mouseHook THEN 1 ELSE 0)
          /\ api.UnhookKbd = (IF g_keyboardHook THEN 1 ELSE 0)

\* C3's case: both hooks were installed, a left click committed, and the
\* process has exited.
HooksUninstalledOnce_Witness ==
    /\ pc = "done" /\ exitCode = 0
    /\ g_mouseHook /\ g_keyboardHook
    /\ api.GetPixel = 1
    /\ api.UnhookMouse = 1 /\ api.UnhookKbd = 1

\* Whether a rectangle lies within a work area.
Within(r, work) ==
    /\ r.left >= work.left
    /\ r.top >= work.top
    /\ r.right <= work.right
    /\ r.bottom <= work.bottom

\* C4 as stated: for any cursor position and any work area the window
\* rectangle lies within the work area.
PlacementWithinWorkArea == clamp.done => Within(clamp.out, clamp.work)

\* C4 amended: for any cursor position and any work area at least kDiameter
\* wide and high, the kDiameter x kDiameter window rectangle lies within the
\* work area.
PlacementWithinLargeWorkArea ==
    (/\ clamp.done
     /\ clamp.work.right - clamp.work.left >= kDiameter
     /\ clamp.work.bottom - clamp.work.top >= kDiameter)
        => /\ Within(clamp.out, clamp.work)
           /\ clamp.out.right - clamp.out.left = kDiameter
           /\ clamp.out.bottom - clamp.out.top = kDiameter

\* C4's case: the cursor sits in the bottom right corner of the full HD work
\* area and the window was pulled back inside.
PlacementWithinLargeWorkArea_Witness ==
    /\ clamp.done
    /\ clamp.work = [left |-> 0, top |-> 0, right |-> 1920, bottom |-> 1040]
    /\ clamp.cur = <<1920 - kOffsetX, 1040 - kOffsetY>>
    /\ clamp.out.left = 1920 - kDiameter
    /\ clamp.out.top = 1040 - kDiameter

\* C5 as stated: a commit whose OpenClipboard succeeds reads the pixel at the
\* cursor once, leaves exactly its #RRGGBB text on the clipboard, and the
\* process exits with code 0.
CommitCopiesWhenOpened ==
    /\ [][(CommitStep /\ clipResult' # "openFailed") =>
            LET c == GetPixel(screen, cursor[1], cursor[2])
            IN  /\ api'.GetPixel = api.GetPixel + 1
                /\ clipboard' = HexText(c % 256, (c \div 256) % 256, (c \div 65536) % 256)
                /\ quitPosted']_vars
    /\ [](pc = "done" /\ api.GetPixel > 0 => exitCode = 0)

\* C5 amended: a commit whose OpenClipboard, GlobalAlloc and GlobalLock all
\* succeed reads the pixel at the cursor once, leaves exactly its #RRGGBB text
\* on the clipboard and posts the quit; a process that committed exits with
\* code 0.
CommitCopiesWhenStored ==
    /\ [][(CommitStep /\ clipResult' = "set") =>
            LET c == GetPixel(screen, cursor[1], cursor[2])
            IN  /\ api'.GetPixel = api.GetPixel + 1
                /\ api'.SetClipboardData = api.SetClipboardData + 1
                /\ clipboard' = HexText(c % 256, (c \div 256) % 256, (c \div 65536) % 256)
                /\ quitPosted']_vars
    /\ [](pc = "done" /\ api.GetPixel > 0 => exitCode = 0)

\* C5's case: the screen is red, one left click committed, and the process
\* has exited with #FF0000 on the clipboard.
CommitCopiesWhenStored_Witness ==
    /\ screen = "red"
    /\ api.GetPixel = 1
    /\ clipResult = "set"
    /\ clipboard = <<"#", "F", "F", "0", "0", "0", "0">>
    /\ pc = "done" /\ exitCode = 0

\* C6: for every colour the formatted text is 7 characters: '#', then the
\* two uppercase hexadecimal digits of r, of g and of b.
FormatIsHashRRGGBB ==
    fmt.buf # <<>> =>
        /\ Len(fmt.buf) = 7
        /\ fmt.buf[1] = "#"
        /\ \A i \in 2..7 : HexValue(fmt.buf[i]) \in 0..15
        /\ \A k \in 1..3 :
              16 * HexValue(fmt.buf[2 * k]) + HexValue(fmt.buf[2 * k + 1]) = fmt.rgb[k]

\* C6's case: orange (255, 165, 0) was formatted as #FFA500.
FormatIsHashRRGGBB_Witness ==
    /\ fmt.rgb = <<255, 165, 0>>
    /\ fmt.buf = <<"#", "F", "F", "A", "5", "0", "0">>

\* C7: in every presented frame each pixel within kRadius of (kRadius,
\* kRadius) has alpha 255, and each pixel outside has alpha 0 and colour 0.
FrameOpacityByDistance ==
    probe.drawn =>
        LET dx == probe.at[1] - kRadius
            dy == probe.at[2] - kRadius
        IN  IF dx * dx + dy * dy <= kRadius * kRadius
            THEN probe.px.a = 255
            ELSE probe.px = ClearedPixel

\* C8: a key-down of an arrow key moves the cursor by 1 pixel (5 with Shift)
\* in its direction, changes nothing else of the position and is swallowed;
\* a key other than the arrows and Escape is passed on with the cursor where
\* it was.
ArrowKeysNudge ==
    served.any =>
        LET n == IF served.shift THEN 5 ELSE 1
            x == served.from[1]
            y == served.from[2]
            vk == served.vk
            down == served.nCode = HC_ACTION /\ served.wParam \in {WM_KEYDOWN, WM_SYSKEYDOWN}
        IN  /\ (down /\ vk = VK_LEFT) => cursor = <<x - n, y>> /\ hookRet = "swallowed"
            /\ (down /\ vk = VK_RIGHT) => cursor = <<x + n, y>> /\ hookRet = "swallowed"
            /\ (down /\ vk = VK_UP) => cursor = <<x, y - n>> /\ hookRet = "swallowed"
            /\ (down /\ vk = VK_DOWN) => cursor = <<x, y + n>> /\ hookRet = "swallowed"
            /\ vk \notin {VK_LEFT, VK_RIGHT, VK_UP, VK_DOWN, VK_ESCAPE} =>
                  cursor = <<x, y>> /\ hookRet = "next"

\* C8's case: from (100, 100) Right was served, and then Shift+Right, which
\* found the cursor at (101, 100) and left it at (106, 100).
ArrowKeysNudge_Witness ==
    /\ api.SetCursorPos = 2
    /\ served.any /\ served.vk = VK_RIGHT /\ served.shift /\ served.wParam = WM_KEYDOWN
    /\ served.from = <<101, 100>>
    /\ cursor = <<106, 100>>
    /\ hookRet = "swallowed"

\* C9: a commit posts the quit whatever the clipboard and the console did,
\* and opens the clipboard once; when OpenClipboard fails the clipboard keeps
\* its content and nothing is emptied or stored.
CommitAlwaysQuits ==
    [][CommitStep =>
          /\ quitPosted'
          /\ hookRet' = "swallowed"
          /\ api'.OpenClipboard = api.OpenClipboard + 1
          /\ clipResult' = "openFailed" =>
                /\ clipboard' = clipboard
                /\ api'.EmptyClipboard = api.EmptyClipboard
                /\ api'.SetClipboardData = api.SetClipboardData]_vars

\* C9's case: one commit was made, the clipboard could not be opened and no
\* console was there; the old content is still on the clipboard and the quit
\* is posted.
CommitAlwaysQuits_Witness ==
    /\ api.GetPixel = 1
    /\ api.OpenClipboard = 1
    /\ clipResult = "openFailed"
    /\ stdout = <<>>
    /\ clipboard = OldClipboard
    /\ quitPosted

\* C10: once the quit is posted (Closing), it stays posted, no further frame
\* is drawn and no further commit happens.
ClosingIsTerminal ==
    [][quitPosted =>
          /\ quitPosted'
          /\ api'.UpdateLayeredWindow = api.UpdateLayeredWindow
          /\ api'.GetPixel = api.GetPixel]_vars

====
